---------------------------- MODULE Spec2Model ----------------------------
(***************************************************************************)
(* A model of the AI_Recruiter pipeline:                                   *)
(*   AI_agent.py        score_resumes                                      *)
(*   crelate_client.py  get_job_contacts, get_job_documents,               *)
(*                      get_latest_stage, download_contact_attachment,     *)
(*                      main                                               *)
(*   resume_parser.py   extract_text_from_*, extract_resumes_text          *)
(*   main.py            clear_folder and the entry point                   *)
(* Each component has its own specification over the shared variables; the *)
(* variables of the other components keep their initial values.            *)
(*                                                                         *)
(* Strings whose characters matter (file names, stage titles, numeric      *)
(* strings) are sequences of one-character strings.  Scores are integers:  *)
(* fractional scores are not modelled.                                     *)
(***************************************************************************)
EXTENDS Integers, Sequences, FiniteSets, TLC

VARIABLES
    \* ---- AI_agent.score_resumes
    resumes,      \* the resumes argument: sequence of [filename, text] (dict order)
    response,     \* what the chat completion answered (before .strip())
    prompt,       \* the file names put in the user prompt, in order
    modelCalls,   \* number of chat completion requests made
    srStatus,     \* "idle" | "returned" | "raised"
    srResults,    \* the returned list
    srError,      \* the exception raised: [type, msg]
    \* ---- crelate_client.get_job_contacts / get_job_documents
    pgFn,         \* the listing function running: "contacts" | "documents" | "none"
    pgN,          \* number of items the server holds for the job
    pgMeta,       \* the Metadata the server sends with every page
    pgOffset,     \* offset
    pgTotal,      \* total / total_count (None until read)
    pgItems,      \* contacts / artifacts
    pgRequests,   \* GET requests issued so far
    pgStatus,     \* "idle" | "running" | "done" | "raised"
    \* ---- resume_parser.extract_resumes_text
    exFolder,     \* what the folder argument is: "dir" | "file" | "missing"
    exFiles,      \* base.rglob('*'): relative path -> [isFile, cond]
    exStatus,     \* "idle" | "returned" | "raised"
    exTexts,      \* the returned mapping: relative path -> content
    \* ---- crelate_client.main and what it calls
    clContacts,   \* the contacts of the job, as get_job_contacts returns them
    clStatus,     \* "start" | "running" | "done" | "raised" | "idle"
    clIndex,      \* how many contacts the for loop has taken
    clLog,        \* per contact taken: [stage, download] outcomes
    clStageResp,  \* the last answer of the stage history endpoint
    clStageReqs,  \* GET .../contacts/history requests issued
    clArtReqs,    \* GET /artifacts/<id>/content requests issued
    fsDirs,       \* directories that exist under the working directory
    fsFiles,      \* files that exist: [dir, name]
    \* ---- crelate_client.get_latest_stage
    stResp,       \* the answer of the stage history endpoint: [status, Data]
    stStatus,     \* "start" | "returned" | "raised" | "idle"
    stValue,      \* the returned value: None or a title
    \* ---- main.py, the entry point
    mnPc,         \* the next step of the run, "exited" at the end
    mnResumes,    \* the folder resumes: [kind, items, stuck, listable]
    mnDocs,       \* the folder job_documents, likewise
    mnRequests,   \* download requests process_job has issued
    mnDownloadOk, \* process_job returned without an exception
    mnScoring,    \* find_best_resumes has been called
    mnPrinted,    \* the ranked list has been printed
    mnFailed,     \* the step that failed, "" if none
    mnExit        \* the exit code, None while the run goes on

scoreVars == <<resumes, response, prompt, modelCalls, srStatus, srResults, srError>>
pageVars == <<pgFn, pgN, pgMeta, pgOffset, pgTotal, pgItems, pgRequests, pgStatus>>

extractVars == <<exFolder, exFiles, exStatus, exTexts>>

clientVars == <<clContacts, clStatus, clIndex, clLog, clStageResp, clStageReqs,
                clArtReqs, fsDirs, fsFiles>>

mainVars == <<mnPc, mnResumes, mnDocs, mnRequests, mnDownloadOk, mnScoring,
              mnPrinted, mnFailed, mnExit>>

stageVars == <<stResp, stStatus, stValue>>

vars == <<scoreVars, pageVars, extractVars, clientVars, mainVars, stageVars>>

notScoreVars == <<pageVars, extractVars, clientVars, mainVars, stageVars>>
notPageVars == <<scoreVars, extractVars, clientVars, mainVars, stageVars>>
notExtractVars == <<scoreVars, pageVars, clientVars, mainVars, stageVars>>
notClientVars == <<scoreVars, pageVars, extractVars, mainVars, stageVars>>
notMainVars == <<scoreVars, pageVars, extractVars, clientVars, stageVars>>
notStageVars == <<scoreVars, pageVars, extractVars, clientVars, mainVars>>

\* Python's None and a present value.
None == [some |-> FALSE, v |-> 0]
Some(v) == [some |-> TRUE, v |-> v]

\* ------------------------------------------------------------------------
\* Bounds of the model
\* ------------------------------------------------------------------------
MaxEntries == 3
MaxItems == 310
MaxFiles == 3
MaxContacts == 3
MaxRequests == 2
MaxHistory == 3

\* ------------------------------------------------------------------------
\* Strings as character sequences
\* ------------------------------------------------------------------------
Str150 == <<"1", "5", "0">>
StrNeg5 == <<"-", "5">>
StrPad40 == <<" ", "4", "0">>
StrAbc == <<"a", "b", "c">>

Digits == {"0", "1", "2", "3", "4", "5", "6", "7", "8", "9"}

DigitVal(c) ==
    CASE c = "0" -> 0 [] c = "1" -> 1 [] c = "2" -> 2 [] c = "3" -> 3
      [] c = "4" -> 4 [] c = "5" -> 5 [] c = "6" -> 6 [] c = "7" -> 7
      [] c = "8" -> 8 [] c = "9" -> 9

IsSpace(c) == c = " "

RECURSIVE LStrip(_)
LStrip(s) ==
    IF s # <<>> /\ IsSpace(Head(s)) THEN LStrip(Tail(s)) ELSE s

RECURSIVE RStrip(_)
RStrip(s) ==
    IF s # <<>> /\ IsSpace(s[Len(s)])
    THEN RStrip(SubSeq(s, 1, Len(s) - 1))
    ELSE s

\* str.strip() of a character string
Strip(s) == RStrip(LStrip(s))

RECURSIVE DigitsValue(_)
DigitsValue(s) ==
    IF s = <<>> THEN 0
    ELSE 10 * DigitsValue(SubSeq(s, 1, Len(s) - 1)) + DigitVal(s[Len(s)])

AllDigits(s) == s # <<>> /\ \A i \in 1..Len(s) : s[i] \in Digits

Reverse(s) == [i \in 1..Len(s) |-> s[Len(s) + 1 - i]]


\* ------------------------------------------------------------------------
\* AI_agent.py : the model's answer as text
\* ------------------------------------------------------------------------
\* A JSON number as Python reads it: a float, possibly NaN (json.loads takes
\* the literal NaN).
Float(v) == [nan |-> FALSE, v |-> v]
NaN == [nan |-> TRUE, v |-> 0]

\* The value under the "score" key of one response object.
\*   k = "int": the number n          k = "str": the string s
\*   k = "nan": the literal NaN       k = "null": null
\*   k = "missing": the object has no "score" key
ScoreVal(k, n, s) == [k |-> k, n |-> n, s |-> s]

ScoreValues ==
    { ScoreVal("int", -5, <<>>), ScoreVal("int", 40, <<>>),
      ScoreVal("str", 0, Str150), ScoreVal("missing", 0, <<>>) }

\* Less common values, tried with single-entry answers only.
RareScoreValues ==
    { ScoreVal("int", 0, <<>>), ScoreVal("int", 90, <<>>),
      ScoreVal("int", 150, <<>>), ScoreVal("int", 101, <<>>),
      ScoreVal("int", -1, <<>>), ScoreVal("int", 100, <<>>),
      ScoreVal("nan", 0, <<>>), ScoreVal("null", 0, <<>>),
      ScoreVal("str", 0, StrAbc),
      ScoreVal("str", 0, StrNeg5), ScoreVal("str", 0, StrPad40),
      ScoreVal("str", 0, <<>>) }

\* One object of the answer: filename (possibly absent) and score.  A.txt can
\* be in the batch, Z.txt never is.
Entry(hasFn, fn, sc) == [hasFn |-> hasFn, fn |-> fn, sc |-> sc]

EntriesWith(scores) ==
    { Entry(TRUE, f, sc) : f \in {"A.txt", "Z.txt"}, sc \in scores }
        \cup { Entry(FALSE, "", sc) : sc \in scores }

\* Answers are token sequences.  Token kinds: "ws" whitespace, "txt" text that
\* is no JSON (prose, a markdown fence), "lbr" [, "rbr" ], "comma", "num" a
\* number, "obj" a whole {...} object.  An object's "rationale" is the
\* position it has in the answer.
Tok(t) == [t |-> t, hasFn |-> FALSE, fn |-> "", sc |-> ScoreVal("missing", 0, <<>>), rationale |-> 0]
Obj(e, i) == [t |-> "obj", hasFn |-> e.hasFn, fn |-> e.fn, sc |-> e.sc, rationale |-> i]

RECURSIVE Elements(_, _)
Elements(es, i) ==
    IF i > Len(es) THEN <<>>
    ELSE (IF i = 1 THEN <<>> ELSE <<Tok("comma")>>) \o <<Obj(es[i], i)>> \o Elements(es, i + 1)

Shapes == {"array", "padded", "fenced", "truncated", "object", "with_number"}

Render(es, shape) ==
    LET arr == <<Tok("lbr")>> \o Elements(es, 1) \o <<Tok("rbr")>>
    IN CASE shape = "array" -> arr
         [] shape = "padded" -> <<Tok("ws")>> \o arr \o <<Tok("ws"), Tok("ws")>>
         [] shape = "fenced" -> <<Tok("txt")>> \o arr \o <<Tok("txt"), Tok("ws")>>
         [] shape = "truncated" -> <<Tok("lbr")>> \o Elements(es, 1)
         [] shape = "object" -> IF es = <<>> THEN <<Tok("ws")>> ELSE <<Tok("ws"), Obj(es[1], 1)>>
         [] shape = "with_number" ->
                <<Tok("lbr")>> \o Elements(es, 1)
                    \o (IF es = <<>> THEN <<>> ELSE <<Tok("comma")>>)
                    \o <<Tok("num"), Tok("rbr")>>

RECURSIVE SeqsUpTo(_, _)
SeqsUpTo(S, n) ==
    IF n = 0 THEN {<<>>}
    ELSE LET shorter == SeqsUpTo(S, n - 1)
         IN shorter \cup { Append(q, x) : q \in {r \in shorter : Len(r) = n - 1}, x \in S }

EntryLists ==
    SeqsUpTo(EntriesWith(ScoreValues), MaxEntries)
        \cup { <<e>> : e \in EntriesWith(RareScoreValues) }
        \cup { <<Entry(TRUE, "A.txt", ScoreVal("int", 40, <<>>)), e>> :
                    e \in EntriesWith(RareScoreValues) }

\* What the chat completion can answer: a text, no text at all (content is
\* None), or a failed request.
Responses ==
    { [kind |-> "text", text |-> Render(es, sh)] : es \in EntryLists, sh \in Shapes }
        \cup { [kind |-> "none", text |-> <<>>], [kind |-> "api_error", text |-> <<>>] }


\* ------------------------------------------------------------------------
\* AI_agent.py : score_resumes
\* ------------------------------------------------------------------------
IsWsTok(x) == x.t = "ws"

RECURSIVE LStripText(_)
LStripText(text) ==
    IF text # <<>> /\ IsWsTok(Head(text)) THEN LStripText(Tail(text)) ELSE text

RECURSIVE RStripText(_)
RStripText(text) ==
    IF text # <<>> /\ IsWsTok(text[Len(text)])
    THEN RStripText(SubSeq(text, 1, Len(text) - 1))
    ELSE text

\* content = response.choices[0].message.content.strip()
StripText(text) == RStripText(LStripText(text))

\* json.loads on a token text: whitespace between tokens is insignificant; a
\* value is one object, one number, or [ v , v , ... ] of objects and numbers.
JsonLoads(content) ==
    LET toks == SelectSeq(content, LAMBDA x : x.t # "ws")
        n == Len(toks)
        inner == IF n >= 2 THEN SubSeq(toks, 2, n - 1) ELSE <<>>
        isValue(x) == x.t \in {"obj", "num"}
        wellFormed ==
            /\ n >= 2
            /\ toks[1].t = "lbr"
            /\ toks[n].t = "rbr"
            /\ \/ inner = <<>>
               \/ /\ Len(inner) % 2 = 1
                  /\ \A i \in 1..Len(inner) :
                        IF i % 2 = 1 THEN isValue(inner[i]) ELSE inner[i].t = "comma"
    IN IF n = 1 /\ toks[1].t = "obj"
           THEN [ok |-> TRUE, kind |-> "object", items |-> <<toks[1]>>]
       ELSE IF n = 1 /\ toks[1].t = "num"
           THEN [ok |-> TRUE, kind |-> "number", items |-> <<>>]
       ELSE IF wellFormed
           THEN [ok |-> TRUE, kind |-> "array",
                 items |-> SelectSeq(inner, LAMBDA x : x.t # "comma")]
       ELSE [ok |-> FALSE, kind |-> "error", items |-> <<>>]

\* float(x) for the value x = item.get("score", 0).
\* A string is stripped, then read as an optional sign and decimal digits.
PyFloat(sc) ==
    LET s == Strip(sc.s)
        neg == s # <<>> /\ Head(s) = "-"
        digits == IF s # <<>> /\ Head(s) \in {"-", "+"} THEN Tail(s) ELSE s
    IN CASE sc.k = "int" -> [exc |-> "", x |-> Float(sc.n)]
         [] sc.k = "nan" -> [exc |-> "", x |-> NaN]
         [] sc.k = "missing" -> [exc |-> "", x |-> Float(0)]
         [] sc.k = "null" -> [exc |-> "TypeError", x |-> Float(0)]
         [] sc.k = "str" ->
                IF AllDigits(digits)
                THEN [exc |-> "", x |-> Float(IF neg THEN 0 - DigitsValue(digits)
                                                   ELSE DigitsValue(digits))]
                ELSE [exc |-> "ValueError", x |-> Float(0)]

\* Python's a < b on floats: false when either is NaN.
FloatLess(a, b) == ~a.nan /\ ~b.nan /\ a.v < b.v

\* min(a, b) and max(a, b): the first argument unless the second is
\* strictly smaller (greater).
PyMin(a, b) == IF FloatLess(b, a) THEN b ELSE a
PyMax(a, b) == IF FloatLess(a, b) THEN b ELSE a

\* The clamp with the lower bound left out.
ClampNoFloor(x) == PyMin(Float(100), x)

\* max(0.0, min(100.0, x))
Clamp(x) == PyMax(Float(0), PyMin(Float(100), x))

\* item["score"] = ... : the object with its score replaced (or added).
Scored(item) ==
    [hasFn |-> item.hasFn, fn |-> item.fn, rationale |-> item.rationale,
     score |-> Clamp(PyFloat(item.sc).x)]

\* The first exception the loop of lines 62-63 raises over items, "" if none.
RECURSIVE ClampLoopException(_)
ClampLoopException(items) ==
    IF items = <<>> THEN ""
    ELSE IF Head(items).t # "obj" THEN "AttributeError"
    ELSE IF PyFloat(Head(items).sc).exc # "" THEN PyFloat(Head(items).sc).exc
    ELSE ClampLoopException(Tail(items))

\* list.sort(key=...) sorts [key, item] pairs.  A stable ascending
\* insertion sort by key:
RECURSIVE InsertAsc(_, _)
InsertAsc(sorted, x) ==
    IF sorted = <<>> THEN <<x>>
    ELSE IF FloatLess(x.key, sorted[Len(sorted)].key)
         THEN Append(InsertAsc(SubSeq(sorted, 1, Len(sorted) - 1), x), sorted[Len(sorted)])
         ELSE Append(sorted, x)

RECURSIVE StableSortAsc(_)
StableSortAsc(xs) ==
    IF xs = <<>> THEN <<>>
    ELSE InsertAsc(StableSortAsc(SubSeq(xs, 1, Len(xs) - 1)), xs[Len(xs)])

Items(pairs) == [i \in 1..Len(pairs) |-> pairs[i].item]

\* list.sort(reverse=True): the list is reversed, sorted stably ascending
\* and reversed again, which keeps equal keys in their original order.
ListSortReverse(pairs) == Reverse(StableSortAsc(Reverse(pairs)))

ByScore(xs) == [i \in 1..Len(xs) |-> [key |-> xs[i].score, item |-> xs[i]]]

\* A descending order got by reversing an ascending sort: ties come out
\* in reverse.
SortDescendingUnstable(xs) == Items(Reverse(StableSortAsc(ByScore(xs))))

\* results.sort(key=lambda x: x["score"], reverse=True)
SortByScoreDesc(xs) == Items(ListSortReverse(ByScore(xs)))

ParseErrorPrefix == <<Tok("txt")>>

NoError == [type |-> "", msg |-> <<>>]
Raised(type, msg) == [status |-> "raised", results |-> <<>>, error |-> [type |-> type, msg |-> msg]]
Returned(results) == [status |-> "returned", results |-> results, error |-> NoError]

\* The decode error swallowed: an empty list is returned.
MalformedSwallowed(content) == Returned(<<>>)

\* except json.JSONDecodeError: raise ValueError(f"Could not parse JSON response: {content}")
Malformed(content) == Raised("ValueError", ParseErrorPrefix \o content)

\* Lines 55-67 on the answer resp.
ScoreOutcome(resp) ==
    IF resp.kind = "api_error" THEN Raised("APIError", <<>>)
    ELSE IF resp.kind = "none" THEN Raised("AttributeError", <<>>)
    ELSE
      LET content == StripText(resp.text)
          parsed == JsonLoads(content)
      IN IF ~parsed.ok THEN Malformed(content)
         ELSE IF parsed.kind = "number" THEN Raised("TypeError", <<>>)
         ELSE IF parsed.kind = "object" THEN Raised("AttributeError", <<>>)
         ELSE IF ClampLoopException(parsed.items) # ""
              THEN Raised(ClampLoopException(parsed.items), <<>>)
         ELSE Returned(SortByScoreDesc([i \in 1..Len(parsed.items) |-> Scored(parsed.items[i])]))

\* The batches score_resumes is called with.
ResumeBatches ==
    { <<>>,
      <<[filename |-> "A.txt", text |-> "text of A"]>>,
      <<[filename |-> "A.txt", text |-> "text of A"], [filename |-> "B.txt", text |-> "text of B"]>> }

ScoreIdle ==
    /\ resumes = <<>>
    /\ response = [kind |-> "pending", text |-> <<>>]
    /\ prompt = <<>>
    /\ modelCalls = 0
    /\ srStatus = "idle"
    /\ srResults = <<>>
    /\ srError = NoError

ScoreStart ==
    /\ resumes \in ResumeBatches
    /\ response = [kind |-> "pending", text |-> <<>>]
    /\ prompt = <<>>
    /\ modelCalls = 0
    /\ srStatus = "idle"
    /\ srResults = <<>>
    /\ srError = NoError

\* score_resumes(resumes, job_description): one chat completion, then the
\* parse, the clamp and the sort.
ScoreResumes ==
    /\ srStatus = "idle"
    /\ \E resp \in Responses :
          LET out == ScoreOutcome(resp)
          IN /\ response' = resp
             /\ prompt' = [i \in 1..Len(resumes) |-> resumes[i].filename]
             /\ modelCalls' = modelCalls + 1
             /\ srStatus' = out.status
             /\ srResults' = out.results
             /\ srError' = out.error
    /\ UNCHANGED resumes
    /\ UNCHANGED notScoreVars

\* ------------------------------------------------------------------------
\* crelate_client.py : get_job_contacts, get_job_documents
\* ------------------------------------------------------------------------
PAGE_SIZE == 100

\* The server lists items 1..n in a fixed order; a page is the items after
\* offset, at most limit of them.
ServerPage(n, offset, limit) ==
    LET last == IF offset + limit < n THEN offset + limit ELSE n
    IN IF offset >= n THEN <<>> ELSE [i \in 1..(last - offset) |-> offset + i]

\* The Metadata object sent with each page: the total under "TotalCount",
\* under "TotalRecords", under both, or not at all.
MetaModes == {"none", "TotalCount", "TotalRecords", "both"}

ServerMeta(mode, n) ==
    [TotalCount |-> IF mode \in {"TotalCount", "both"} THEN Some(n) ELSE None,
     TotalRecords |-> IF mode \in {"TotalRecords", "both"} THEN Some(n) ELSE None]

\* a or b
PyOr(a, b) == IF a.some /\ a.v # 0 THEN a ELSE b

\* meta.get("TotalCount")
ContactsTotal(meta) == meta.TotalCount

\* meta.get("TotalRecords") or meta.get("TotalCount")
DocumentsTotal(meta) == PyOr(meta.TotalRecords, meta.TotalCount)

\* The loop exit without the short-page test.
ShouldBreakTotalOnly(batchLen, limit, total, offset) ==
    total.some /\ offset >= total.v

\* len(batch) < limit or (total is not None and offset >= total)
ShouldBreak(batchLen, limit, total, offset) ==
    batchLen < limit \/ (total.some /\ offset >= total.v)

PageIdle ==
    /\ pgFn = "none"
    /\ pgN = 0
    /\ pgMeta = ServerMeta("none", 0)
    /\ pgOffset = 0
    /\ pgTotal = None
    /\ pgItems = <<>>
    /\ pgRequests = 0
    /\ pgStatus = "idle"

\* contacts, offset, total = [], 0, None  (and the same for artifacts)
PageStart ==
    /\ pgFn \in {"contacts", "documents"}
    /\ pgN \in 0..MaxItems
    /\ pgMeta \in { ServerMeta(m, pgN) : m \in MetaModes }
    /\ pgOffset = 0
    /\ pgTotal = None
    /\ pgItems = <<>>
    /\ pgRequests = 0
    /\ pgStatus = "running"

\* One pass of the while loop: the request, then lines 34-45 (121-134).
\* ok is whether the response passes raise_for_status.
\* metaTotal is what the function reads from the Metadata when total is None.
LoopPass(metaTotal, limit, ok) ==
    LET batch == ServerPage(pgN, pgOffset, limit)
        total == IF pgTotal.some THEN pgTotal ELSE metaTotal
        offset == pgOffset + Len(batch)
    IN /\ pgRequests' = pgRequests + 1
       /\ IF ~ok
          THEN /\ pgStatus' = "raised"
               /\ UNCHANGED <<pgTotal, pgItems, pgOffset>>
          ELSE /\ pgTotal' = total
               /\ IF batch = <<>>
                  THEN /\ pgStatus' = "done"
                       /\ UNCHANGED <<pgItems, pgOffset>>
                  ELSE /\ pgItems' = pgItems \o batch
                       /\ pgOffset' = offset
                       /\ pgStatus' = IF ShouldBreak(Len(batch), limit, total, offset)
                                      THEN "done" ELSE "running"
       /\ UNCHANGED <<pgFn, pgN, pgMeta>>

\* get_job_contacts: one pass of its loop.
GetJobContactsPage ==
    /\ pgStatus = "running"
    /\ pgFn = "contacts"
    /\ \E ok \in BOOLEAN : LoopPass(ContactsTotal(pgMeta), PAGE_SIZE, ok)
    /\ UNCHANGED notPageVars

\* get_job_documents (limit = PAGE_SIZE): one pass of its loop.
GetJobDocumentsPage ==
    /\ pgStatus = "running"
    /\ pgFn = "documents"
    /\ \E ok \in BOOLEAN : LoopPass(DocumentsTotal(pgMeta), PAGE_SIZE, ok)
    /\ UNCHANGED notPageVars

\* ------------------------------------------------------------------------
\* resume_parser.py
\* ------------------------------------------------------------------------
UpperChars == <<"A", "B", "C", "D", "E", "F", "G", "H", "I", "J", "K", "L", "M",
                "N", "O", "P", "Q", "R", "S", "T", "U", "V", "W", "X", "Y", "Z">>
LowerChars == <<"a", "b", "c", "d", "e", "f", "g", "h", "i", "j", "k", "l", "m",
                "n", "o", "p", "q", "r", "s", "t", "u", "v", "w", "x", "y", "z">>

LowerChar(c) ==
    IF \E i \in 1..26 : UpperChars[i] = c
    THEN LowerChars[CHOOSE i \in 1..26 : UpperChars[i] = c]
    ELSE c

\* str.lower()
Lower(s) == [i \in 1..Len(s) |-> LowerChar(s[i])]

\* name.rfind('.') as a 1-based position, 0 when there is no dot.
RFindDot(name) ==
    IF \E i \in 1..Len(name) : name[i] = "."
    THEN CHOOSE i \in 1..Len(name) :
            name[i] = "." /\ \A j \in (i + 1)..Len(name) : name[j] # "."
    ELSE 0

\* PurePath.suffix: the last dot and what follows, unless the dot starts or
\* ends the name.
Suffix(name) ==
    LET i == RFindDot(name)
    IN IF 1 < i /\ i < Len(name) THEN SubSeq(name, i, Len(name)) ELSE <<>>

\* The suffix compared as written, without .lower().
SuffixAsWritten(name) == Suffix(name)

\* suffix = file_path.suffix.lower()
SuffixLower(name) == Lower(Suffix(name))

ExtPdf == <<".", "p", "d", "f">>
ExtDocx == <<".", "d", "o", "c", "x">>
ExtDoc == <<".", "d", "o", "c">>
ExtTxt == <<".", "t", "x", "t">>

\* Content values: the file's text, the empty string, or
\* "Error extracting text: ..." .
TextOf(p) == [k |-> "text", of |-> p]
Empty == [k |-> "empty", of |-> [dir |-> "", name |-> <<>>]]
ErrorText(p) == [k |-> "error", of |-> p]

\* What happens when a file is read.
\*   "ok"            the library reads the text
\*   "open_fails"    the reader / Word / open() fails on the file inside the
\*                   extractor's try block (a corrupt PDF)
\*   "decrypt_fails" an encrypted PDF whose decrypt('') raises
\*   "raises"        an exception outside the extractor's try blocks
\*                   (reader.pages of a damaged PDF, Dispatch of Word)
Conds == {"ok", "open_fails", "decrypt_fails", "raises"}

\* An extractor's result: a returned string or a raised exception.
Ret(content) == [raised |-> FALSE, content |-> content]
Exc == [raised |-> TRUE, content |-> Empty]

\* extract_text_from_pdf without its try blocks: every failure propagates.
ExtractPdfPropagating(p, cond) ==
    IF cond = "ok" THEN Ret(TextOf(p)) ELSE Exc

\* extract_text_from_pdf
ExtractTextFromPdf(p, cond) ==
    CASE cond = "open_fails" -> Ret(Empty)
      [] cond = "decrypt_fails" -> Ret(Empty)
      [] cond = "raises" -> Exc
      [] OTHER -> Ret(TextOf(p))

\* extract_text_from_docx and extract_text_from_doc
ExtractTextFromWord(p, cond) ==
    CASE cond = "raises" -> Exc
      [] cond = "open_fails" -> Ret(Empty)
      [] OTHER -> Ret(TextOf(p))

\* extract_text_from_txt
ExtractTextFromTxt(p, cond) ==
    IF cond = "ok" THEN Ret(TextOf(p)) ELSE Ret(Empty)

\* Lines 152-169 for one file: skipped, or the content stored under its key.
Dispatch(p, cond) ==
    LET suffix == SuffixLower(p.name)
        r == CASE suffix = ExtPdf -> ExtractTextFromPdf(p, cond)
               [] suffix = ExtDocx -> ExtractTextFromWord(p, cond)
               [] suffix = ExtDoc -> ExtractTextFromWord(p, cond)
               [] suffix = ExtTxt -> ExtractTextFromTxt(p, cond)
               [] OTHER -> Exc
    IN IF suffix \notin {ExtPdf, ExtDocx, ExtDoc, ExtTxt}
       THEN [skip |-> TRUE, content |-> Empty]
       ELSE [skip |-> FALSE, content |-> IF r.raised THEN ErrorText(p) ELSE r.content]

\* The folder's entries.
Path(dir, name) == [dir |-> dir, name |-> name]

FolderPaths ==
    { Path("", <<"a", ".", "t", "x", "t">>),
      Path("", <<"b", ".", "p", "d", "f">>),
      Path("", <<"c", ".", "x", "y", "z">>),
      Path("", <<"D", ".", "P", "D", "F">>),
      Path("", <<"e", ".", "d", "o", "c", "x">>),
      Path("", <<"f", ".", "D", "o", "c">>),
      Path("", <<".", "p", "d", "f">>),
      Path("", <<"g">>),
      Path("", <<"h", ".", "t", "x", "t", ".">>),
      Path("sub", <<"b", ".", "p", "d", "f">>),
      Path("sub", <<"i", ".", "t", "a", "r", ".", "t", "x", "t">>) }

\* The conditions a file of this name can be in.
CondsOf(p) ==
    LET suffix == Lower(Suffix(p.name))
    IN IF suffix = ExtPdf THEN Conds
       ELSE IF suffix \in {ExtDocx, ExtDoc} THEN {"ok", "open_fails", "raises"}
       ELSE IF suffix = ExtTxt THEN {"ok", "open_fails"}
       ELSE {"ok"}

\* A directory entry is a regular file in some condition, or a directory.
EntryStates(p) ==
    { [isFile |-> TRUE, cond |-> c] : c \in CondsOf(p) }
        \cup (IF p.dir = "" /\ Len(p.name) = 5 /\ p.name[1] = "b"
              THEN {[isFile |-> FALSE, cond |-> "ok"]} ELSE {})

RECURSIVE Folders(_, _)
Folders(paths, n) ==
    IF n = 0 \/ paths = {} THEN { << >> }
    ELSE LET p == CHOOSE q \in paths : TRUE
             rest == Folders(paths \ {p}, n)
             fewer == Folders(paths \ {p}, n - 1)
         IN rest \cup { (p :> st) @@ f : f \in fewer, st \in EntryStates(p) }

ExtractIdle ==
    /\ exFolder = "dir"
    /\ exFiles = << >>
    /\ exStatus = "idle"
    /\ exTexts = << >>

ExtractStart ==
    /\ exFolder \in {"dir", "file", "missing"}
    /\ exFiles \in (IF exFolder = "dir" THEN Folders(FolderPaths, MaxFiles) ELSE { << >> })
    /\ exStatus = "idle"
    /\ exTexts = << >>

\* extract_resumes_text(folder)
ExtractResumesText ==
    /\ exStatus = "idle"
    /\ IF exFolder # "dir"
       THEN /\ exStatus' = "raised"
            /\ exTexts' = << >>
       ELSE LET kept == { p \in DOMAIN exFiles :
                            exFiles[p].isFile /\ ~Dispatch(p, exFiles[p].cond).skip }
            IN /\ exStatus' = "returned"
               /\ exTexts' = [p \in kept |-> Dispatch(p, exFiles[p].cond).content]
    /\ UNCHANGED <<exFolder, exFiles>>
    /\ UNCHANGED notExtractVars

\* ------------------------------------------------------------------------
\* crelate_client.py : get_latest_stage, download_contact_attachment, main
\* ------------------------------------------------------------------------
GoodFit == <<"G", "o", "o", "d", " ", "F", "i", "t">>
GoodFitPadded == <<" ">> \o GoodFit \o <<" ", " ">>
Submitted == <<"S", "u", "b", "m", "i", "t", "t", "e", "d">>

\* OUTPUT_DIR
OutputDir == "resumes"

\* One entry of the "Data" list of the history endpoint's answer.
\*   hasDate: the entry has a "Date" key, whose string is Date.  Dates are
\*            abbreviated to a count of days written in digits, possibly
\*            followed by Z: "10" is later than "2Z".
\*   Stage:   "object" when "Stage" is an object, whose "Title" is Title
\*            (None when the object has no Title); "absent" when the entry
\*            has no "Stage" key; "null" when "Stage" is null.
StageEntry(hasDate, date, stage, title) ==
    [hasDate |-> hasDate, Date |-> date, Stage |-> stage, Title |-> title]

\* An entry with a Date and a Stage object.
HistoryEntry(date, title) == StageEntry(TRUE, date, "object", title)

RECURSIVE RStripZ(_)
RStripZ(s) ==
    IF s # <<>> /\ s[Len(s)] = "Z" THEN RStripZ(SubSeq(s, 1, Len(s) - 1)) ELSE s

\* parse_date(item) raises: KeyError without a "Date", ValueError when
\* what is left of it after rstrip("Z") is not a date.
ParseDateRaises(item) == ~item.hasDate \/ ~AllDigits(RStripZ(item.Date))

\* datetime.fromisoformat(item["Date"].rstrip("Z")), as a number
ParseDate(item) == Float(DigitsValue(RStripZ(item.Date)))

Date1 == <<"1", "Z">>
Date2 == <<"2", "Z">>
Date10 == <<"1", "0">>
Date2NoZ == <<"2">>
DateBad == <<"Z">>

Histories ==
    { <<>>,
      <<HistoryEntry(Date1, Some(GoodFit))>>,
      <<HistoryEntry(Date1, Some(GoodFitPadded))>>,
      <<HistoryEntry(Date1, Some(Submitted))>>,
      <<HistoryEntry(Date1, None)>>,
      <<HistoryEntry(Date1, Some(Submitted)), HistoryEntry(Date2, Some(GoodFit))>>,
      <<HistoryEntry(Date2, Some(GoodFit)), HistoryEntry(Date1, Some(Submitted))>>,
      <<HistoryEntry(Date2, Some(Submitted)), HistoryEntry(Date10, Some(GoodFit))>>,
      <<HistoryEntry(Date2, Some(Submitted)), HistoryEntry(Date1, Some(GoodFit))>> }

\* Answers of GET /jobs/<JOB_ID>/contacts/history.
StageResponses ==
    { [status |-> 200, Data |-> h] : h \in Histories }
        \cup { [status |-> 404, Data |-> <<>>], [status |-> 500, Data |-> <<>>] }

NoStageResponse == [status |-> 0, Data |-> <<>>]

ByDate(history) == [i \in 1..Len(history) |-> [key |-> ParseDate(history[i]), item |-> history[i]]]

\* history[0].get("Stage", {}) followed by latest.get("Title"): of a Stage
\* object its Title, None without a "Stage" key.  (On a null Stage
\* latest.get raises, see GetLatestStage.)
StageTitle(item) == IF item.Stage = "object" THEN item.Title ELSE None

\* get_latest_stage with the list sorted ascending (reverse=True left out).
GetLatestStageAscending(resp) ==
    IF resp.status = 404 THEN [raised |-> FALSE, value |-> None]
    ELSE IF resp.status # 200 THEN [raised |-> TRUE, value |-> None]
    ELSE IF resp.Data = <<>> THEN [raised |-> FALSE, value |-> None]
    ELSE IF \E i \in 1..Len(resp.Data) : ParseDateRaises(resp.Data[i])
    THEN [raised |-> TRUE, value |-> None]
    ELSE LET latest == Items(StableSortAsc(ByDate(resp.Data)))[1]
         IN IF latest.Stage = "null"
            THEN [raised |-> TRUE, value |-> None]
            ELSE [raised |-> FALSE, value |-> StageTitle(latest)]

\* get_latest_stage on the endpoint's answer: the returned value (None or
\* a title), or raised.  It raises on an HTTP error other than 404
\* (raise_for_status), when parse_date raises on an entry (the sort
\* computes every key), and on a null Stage in the first entry after the
\* sort (None has no get).  A missing or null "Data" is the empty list.
GetLatestStage(resp) ==
    IF resp.status = 404 THEN [raised |-> FALSE, value |-> None]
    ELSE IF resp.status # 200 THEN [raised |-> TRUE, value |-> None]
    ELSE IF resp.Data = <<>> THEN [raised |-> FALSE, value |-> None]
    ELSE IF \E i \in 1..Len(resp.Data) : ParseDateRaises(resp.Data[i])
    THEN [raised |-> TRUE, value |-> None]
    ELSE LET latest == Items(ListSortReverse(ByDate(resp.Data)))[1]
         IN IF latest.Stage = "null"
            THEN [raised |-> TRUE, value |-> None]
            ELSE [raised |-> FALSE, value |-> StageTitle(latest)]

\* The entries the history endpoint may list.
StageEntries ==
    { HistoryEntry(Date1, Some(GoodFit)),
      HistoryEntry(Date2, Some(Submitted)),
      HistoryEntry(Date10, Some(GoodFitPadded)),
      HistoryEntry(Date2NoZ, Some(GoodFit)),
      HistoryEntry(Date1, None),
      StageEntry(TRUE, Date10, "absent", None),
      StageEntry(TRUE, Date2, "null", None),
      StageEntry(FALSE, <<>>, "object", Some(Submitted)),
      HistoryEntry(DateBad, Some(GoodFit)) }

\* The answers get_latest_stage may receive: 200 with a history of at most
\* MaxHistory entries in any order, 404, 500.
StageAnswers ==
    { [status |-> 200, Data |-> h] : h \in SeqsUpTo(StageEntries, MaxHistory) }
        \cup { [status |-> 404, Data |-> <<>>], [status |-> 500, Data |-> <<>>] }

StageIdle ==
    /\ stResp = NoStageResponse
    /\ stStatus = "idle"
    /\ stValue = None

StageStart ==
    /\ stResp \in StageAnswers
    /\ stStatus = "start"
    /\ stValue = None

\* get_latest_stage(contact_id)
GetLatestStageCall ==
    /\ stStatus = "start"
    /\ LET out == GetLatestStage(stResp)
       IN /\ stStatus' = IF out.raised THEN "raised" ELSE "returned"
          /\ stValue' = out.value
    /\ UNCHANGED stResp
    /\ UNCHANGED notStageVars

\* A contact: its Id and its PrimaryDocumentAttachmentId, which may be
\* absent, lack an Id, or lack a Title.
Attachment(present, hasId, hasTitle) ==
    [present |-> present, hasId |-> hasId, hasTitle |-> hasTitle]

Attachments ==
    { Attachment(FALSE, FALSE, FALSE), Attachment(TRUE, FALSE, TRUE),
      Attachment(TRUE, TRUE, TRUE), Attachment(TRUE, TRUE, FALSE) }

ContactIds == <<"c1", "c2", "c3", "c4", "c5">>

\* The artifact id and title of the contact with this Id.
ArtifactId(id) == <<"artifact of", id>>
ArtifactTitle(id) == <<"title of", id>>

RECURSIVE ContactLists(_)
ContactLists(n) ==
    IF n = 0 THEN { <<>> }
    ELSE LET shorter == ContactLists(n - 1)
         IN shorter \cup
              { Append(cs, [Id |-> ContactIds[n], pa |-> a]) :
                    cs \in { l \in shorter : Len(l) = n - 1 }, a \in Attachments }

\* Answers of GET /artifacts/<aid>/content.
ArtifactStatuses == {200, 404, 500}

\* The download with dest.mkdir moved to the top of the function.
DownloadMkdirFirst(contact, status) ==
    LET made == {OutputDir, contact.Id}
    IN IF ~contact.pa.present \/ ~contact.pa.hasId
       THEN [raised |-> FALSE, requests |-> 0, outcome |-> "no_resume", dirs |-> made, files |-> {}]
       ELSE IF status = 404
       THEN [raised |-> FALSE, requests |-> 1, outcome |-> "not_found", dirs |-> made, files |-> {}]
       ELSE IF status # 200
       THEN [raised |-> TRUE, requests |-> 1, outcome |-> "raised", dirs |-> made, files |-> {}]
       ELSE [raised |-> FALSE, requests |-> 1, outcome |-> "saved", dirs |-> made,
             files |-> {[dir |-> contact.Id,
                         name |-> IF contact.pa.hasTitle THEN ArtifactTitle(contact.Id)
                                  ELSE ArtifactId(contact.Id)]}]

\* download_contact_attachment(contact) when the artifact endpoint answers
\* status: whether it raised, the requests it issued, and the directories
\* and files it created.
DownloadContactAttachment(contact, status) ==
    IF ~contact.pa.present \/ ~contact.pa.hasId
    THEN [raised |-> FALSE, requests |-> 0, outcome |-> "no_resume", dirs |-> {}, files |-> {}]
    ELSE IF status = 404
    THEN [raised |-> FALSE, requests |-> 1, outcome |-> "not_found", dirs |-> {}, files |-> {}]
    ELSE IF status # 200
    THEN [raised |-> TRUE, requests |-> 1, outcome |-> "raised", dirs |-> {}, files |-> {}]
    ELSE [raised |-> FALSE, requests |-> 1, outcome |-> "saved",
          dirs |-> {OutputDir, contact.Id},
          files |-> {[dir |-> contact.Id,
                      name |-> IF contact.pa.hasTitle THEN ArtifactTitle(contact.Id)
                               ELSE ArtifactId(contact.Id)]}]

ClientIdle ==
    /\ clContacts = <<>>
    /\ clStatus = "idle"
    /\ clIndex = 0
    /\ clLog = <<>>
    /\ clStageResp = NoStageResponse
    /\ clStageReqs = 0
    /\ clArtReqs = 0
    /\ fsDirs = {}
    /\ fsFiles = {}

ClientStart ==
    /\ clContacts \in ContactLists(MaxContacts)
    /\ clStatus = "start"
    /\ clIndex = 0
    /\ clLog = <<>>
    /\ clStageResp = NoStageResponse
    /\ clStageReqs = 0
    /\ clArtReqs = 0
    /\ fsDirs = {}
    /\ fsFiles = {}

\* main, lines 168-172: the output directory, the contacts, the early return.
\* ok is whether get_job_contacts returned (it raises on an HTTP error).
MainBegin ==
    /\ clStatus = "start"
    /\ fsDirs' = fsDirs \cup {OutputDir}
    /\ \E ok \in BOOLEAN :
          clStatus' = IF ~ok THEN "raised"
                      ELSE IF clContacts = <<>> THEN "done" ELSE "running"
    /\ UNCHANGED <<clContacts, clIndex, clLog, clStageResp, clStageReqs, clArtReqs, fsFiles>>
    /\ UNCHANGED notClientVars

\* What one pass of the for loop of lines 174-176 does with contact c.
LoopBody(c, stageResp, artStatus) ==
    LET stage == GetLatestStage(stageResp)
        dl == DownloadContactAttachment(c, artStatus)
    IN IF stage.raised
       THEN [raised |-> TRUE, stage |-> "http_error", download |-> "not_called",
             requests |-> 0, dirs |-> {}, files |-> {}]
       ELSE IF ~stage.value.some
       THEN [raised |-> TRUE, stage |-> "none", download |-> "not_called",
             requests |-> 0, dirs |-> {}, files |-> {}]
       ELSE IF Strip(stage.value.v) # GoodFit
       THEN [raised |-> FALSE, stage |-> "other", download |-> "not_called",
             requests |-> 0, dirs |-> {}, files |-> {}]
       ELSE [raised |-> dl.raised, stage |-> "matched", download |-> dl.outcome,
             requests |-> dl.requests, dirs |-> dl.dirs, files |-> dl.files]

\* main, lines 174-176: one pass of the for loop.
MainContact ==
    /\ clStatus = "running"
    /\ \E stageResp \in StageResponses, artStatus \in ArtifactStatuses :
          LET c == clContacts[clIndex + 1]
              out == LoopBody(c, stageResp, artStatus)
          IN /\ clStageResp' = stageResp
             /\ clStageReqs' = clStageReqs + 1
             /\ clArtReqs' = clArtReqs + out.requests
             /\ clIndex' = clIndex + 1
             /\ clLog' = Append(clLog, [stage |-> out.stage, download |-> out.download])
             /\ fsDirs' = fsDirs \cup out.dirs
             /\ fsFiles' = fsFiles \cup out.files
             /\ clStatus' = IF out.raised THEN "raised"
                            ELSE IF clIndex + 1 = Len(clContacts) THEN "done"
                            ELSE "running"
    /\ UNCHANGED clContacts
    /\ UNCHANGED notClientVars

\* ------------------------------------------------------------------------
\* main.py : clear_folder and the entry point
\* ------------------------------------------------------------------------
\* A folder on disk: missing, a regular file of that name, or a directory
\* with items.  stuck are the items whose removal raises; listable is
\* whether iterdir() works.
Folder(kind, items, stuck, listable) ==
    [kind |-> kind, items |-> items, stuck |-> stuck, listable |-> listable]

\* What an earlier run left behind, and what this run downloads.
OldItems == {"old1", "old2"}
NewItem == "new"

FolderStates ==
    { Folder("missing", {}, {}, TRUE), Folder("file", {}, {}, TRUE) }
        \cup UNION { { Folder("dir", items, stuck, l) : stuck \in SUBSET items, l \in BOOLEAN } :
                       items \in SUBSET OldItems }

\* clear_folder(folder): the folder afterwards, and whether the call raised
\* (iterdir is outside the try block).
ClearFolder(folder) ==
    IF folder.kind # "dir" THEN [raised |-> FALSE, folder |-> folder]
    ELSE IF ~folder.listable THEN [raised |-> TRUE, folder |-> folder]
    ELSE [raised |-> FALSE, folder |-> [folder EXCEPT !.items = folder.items \cap folder.stuck]]

\* folder.mkdir(parents=True, exist_ok=True); ok is whether the directory
\* can be created when it is missing.
Mkdir(folder, ok) ==
    IF folder.kind = "dir" THEN [raised |-> FALSE, folder |-> folder]
    ELSE IF folder.kind = "file" \/ ~ok THEN [raised |-> TRUE, folder |-> folder]
    ELSE [raised |-> FALSE, folder |-> Folder("dir", {}, {}, TRUE)]

MainIdle ==
    /\ mnPc = "idle"
    /\ mnResumes = Folder("missing", {}, {}, TRUE)
    /\ mnDocs = Folder("missing", {}, {}, TRUE)
    /\ mnRequests = 0
    /\ mnDownloadOk = FALSE
    /\ mnScoring = FALSE
    /\ mnPrinted = FALSE
    /\ mnFailed = ""
    /\ mnExit = None

MainStart ==
    /\ mnPc = "import"
    /\ mnResumes \in FolderStates
    /\ mnDocs \in FolderStates
    /\ mnRequests = 0
    /\ mnDownloadOk = FALSE
    /\ mnScoring = FALSE
    /\ mnPrinted = FALSE
    /\ mnFailed = ""
    /\ mnExit = None

\* The run ends with exit code 1 after step failed.
Fail(step) ==
    /\ mnPc' = "exited"
    /\ mnFailed' = step
    /\ mnExit' = Some(1)

\* Lines 9-22: the imports, which end the run when an API key is not set
\* (crelate_client.py 17-19, AI_agent.py 14-16), and the prompts.
Import ==
    /\ mnPc = "import"
    /\ \E keysSet \in BOOLEAN :
          IF keysSet
          THEN mnPc' = "clear_resumes" /\ UNCHANGED <<mnFailed, mnExit>>
          ELSE Fail("config")
    /\ UNCHANGED <<mnResumes, mnDocs, mnRequests, mnDownloadOk, mnScoring, mnPrinted>>
    /\ UNCHANGED notMainVars

\* Line 45: clear_folder(resume_output_dir)
ClearResumeFolder ==
    /\ mnPc = "clear_resumes"
    /\ mnResumes' = ClearFolder(mnResumes).folder
    /\ IF ClearFolder(mnResumes).raised
       THEN Fail("setup")
       ELSE mnPc' = "clear_docs" /\ UNCHANGED <<mnFailed, mnExit>>
    /\ UNCHANGED <<mnDocs, mnRequests, mnDownloadOk, mnScoring, mnPrinted>>
    /\ UNCHANGED notMainVars

\* Line 46: clear_folder(document_output_dir)
ClearDocumentFolder ==
    /\ mnPc = "clear_docs"
    /\ mnDocs' = ClearFolder(mnDocs).folder
    /\ IF ClearFolder(mnDocs).raised
       THEN Fail("setup")
       ELSE mnPc' = "mkdir" /\ UNCHANGED <<mnFailed, mnExit>>
    /\ UNCHANGED <<mnResumes, mnRequests, mnDownloadOk, mnScoring, mnPrinted>>
    /\ UNCHANGED notMainVars

\* Lines 49-56: both mkdir calls in one try block.
EnsureFolders ==
    /\ mnPc = "mkdir"
    /\ \E ok1, ok2 \in BOOLEAN :
          LET r == Mkdir(mnResumes, ok1)
              d == Mkdir(mnDocs, ok2)
          IN IF r.raised
             THEN UNCHANGED <<mnResumes, mnDocs>> /\ Fail("setup")
             ELSE IF d.raised
             THEN mnResumes' = r.folder /\ UNCHANGED mnDocs /\ Fail("setup")
             ELSE /\ mnResumes' = r.folder
                  /\ mnDocs' = d.folder
                  /\ mnPc' = "download"
                  /\ UNCHANGED <<mnFailed, mnExit>>
    /\ UNCHANGED <<mnRequests, mnDownloadOk, mnScoring, mnPrinted>>
    /\ UNCHANGED notMainVars

\* process_job, called at line 62: one download request, whose file lands
\* in the resumes folder.
ProcessJobRequest ==
    /\ mnPc = "download"
    /\ mnRequests < MaxRequests
    /\ mnRequests' = mnRequests + 1
    /\ \E saved \in BOOLEAN :
          mnResumes' = IF saved /\ mnResumes.kind = "dir"
                       THEN [mnResumes EXCEPT !.items = @ \cup {NewItem}]
                       ELSE mnResumes
    /\ UNCHANGED <<mnPc, mnDocs, mnDownloadOk, mnScoring, mnPrinted, mnFailed, mnExit>>
    /\ UNCHANGED notMainVars

\* The except block of lines 71-74 without its sys.exit(1).
AfterDownloadIgnoringFailure(ok) == "score"

\* Lines 68-74: where the run goes when process_job returned (ok) or raised.
AfterDownload(ok) == IF ok THEN "score" ELSE "exited"

\* Lines 60-74: process_job returns or raises.
ProcessJobEnds ==
    /\ mnPc = "download"
    /\ \E ok \in BOOLEAN :
          /\ mnDownloadOk' = ok
          /\ mnPc' = AfterDownload(ok)
          /\ IF ok THEN UNCHANGED <<mnFailed, mnExit>>
             ELSE mnFailed' = "download" /\ mnExit' = IF mnPc' = "exited" THEN Some(1) ELSE mnExit
    /\ UNCHANGED <<mnResumes, mnDocs, mnRequests, mnScoring, mnPrinted>>
    /\ UNCHANGED notMainVars

\* Lines 77-90: find_best_resumes returns and the list is printed, or it
\* raises.
ScoreAndPrint ==
    /\ mnPc = "score"
    /\ mnScoring' = TRUE
    /\ \E ok \in BOOLEAN :
          IF ok
          THEN mnPrinted' = TRUE /\ mnPc' = "final" /\ UNCHANGED <<mnFailed, mnExit>>
          ELSE UNCHANGED mnPrinted /\ Fail("scoring")
    /\ UNCHANGED <<mnResumes, mnDocs, mnRequests, mnDownloadOk>>
    /\ UNCHANGED notMainVars

\* Line 93 and the end of the script.
Finish ==
    /\ mnPc = "final"
    /\ mnPc' = "exited"
    /\ mnExit' = Some(0)
    /\ UNCHANGED <<mnResumes, mnDocs, mnRequests, mnDownloadOk, mnScoring, mnPrinted, mnFailed>>
    /\ UNCHANGED notMainVars

ScoreInit == ScoreStart /\ PageIdle /\ ExtractIdle /\ ClientIdle /\ MainIdle /\ StageIdle

ScoreNext == ScoreResumes

SpecScore == ScoreInit /\ [][ScoreNext]_vars

\* ------------------------------------------------------------------------
\* Claims about score_resumes
\* ------------------------------------------------------------------------
\* The objects of the answer, in the answer's order.
ReportedObjects == SelectSeq(response.text, LAMBDA x : x.t = "obj")

\* The object of the answer a returned entry comes from (by its rationale).
ReportedFor(r) == ReportedObjects[r.rationale]

InRange(x) == ~x.nan /\ 0 <= x.v /\ x.v <= 100

\* C1: every entry of a returned list has a score in [0,100]: a reported
\* number below 0 becomes 0, one above 100 becomes 100 (also the string
\* "150"), one inside the range is kept, and a missing score key gives 0.
C1_ScoresClamped ==
    srStatus = "returned" =>
        \A i \in 1..Len(srResults) :
            LET r == srResults[i]
                rep == ReportedFor(r)
            IN /\ InRange(r.score)
               /\ (rep.sc.k = "int" /\ rep.sc.n < 0) => r.score.v = 0
               /\ (rep.sc.k = "int" /\ rep.sc.n > 100) => r.score.v = 100
               /\ (rep.sc.k = "int" /\ rep.sc.n >= 0 /\ rep.sc.n <= 100) => r.score.v = rep.sc.n
               /\ (rep.sc.k = "str" /\ rep.sc.s = Str150) => r.score.v = 100
               /\ (rep.sc.k = "str" /\ rep.sc.s = StrNeg5) => r.score.v = 0
               /\ rep.sc.k = "missing" => r.score.v = 0

\* A returned list holding a reported -5 (now 0), a reported "150" (now 100)
\* and an entry without a score key (now 0).
C1_Witness ==
    /\ srStatus = "returned"
    /\ \E i, j, k \in 1..Len(srResults) :
          /\ ReportedFor(srResults[i]).sc = ScoreVal("int", -5, <<>>)
          /\ srResults[i].score = Float(0)
          /\ ReportedFor(srResults[j]).sc = ScoreVal("str", 0, Str150)
          /\ srResults[j].score = Float(100)
          /\ ReportedFor(srResults[k]).sc.k = "missing"
          /\ srResults[k].score = Float(0)

\* C2: a returned list is sorted by score descending, entries with equal
\* score keep the order they had in the answer, and the list is a
\* permutation of the answer's entries.
C2_RankedStable ==
    srStatus = "returned" =>
        /\ \A i, j \in 1..Len(srResults) :
              i < j => srResults[i].score.v >= srResults[j].score.v
        /\ \A i, j \in 1..Len(srResults) :
              (i < j /\ srResults[i].score.v = srResults[j].score.v)
                  => srResults[i].rationale < srResults[j].rationale
        /\ Len(srResults) = Len(ReportedObjects)
        /\ { srResults[i].rationale : i \in 1..Len(srResults) } = 1..Len(ReportedObjects)
        /\ \A i \in 1..Len(srResults) :
              /\ srResults[i].hasFn = ReportedFor(srResults[i]).hasFn
              /\ srResults[i].fn = ReportedFor(srResults[i]).fn

\* A returned list of three whose order differs from the answer's and that
\* holds a tie: answer (40, "150", 40) returned as second, first, third.
C2_Witness ==
    /\ srStatus = "returned"
    /\ Len(srResults) = 3
    /\ srResults[1].rationale = 2
    /\ srResults[2].rationale = 1
    /\ srResults[3].rationale = 3
    /\ srResults[2].score = srResults[3].score

\* C6: every returned entry has a filename, and it is a key of the resumes
\* mapping of the same call.
C6_FilenamesInBatch ==
    srStatus = "returned" =>
        \A i \in 1..Len(srResults) :
            /\ srResults[i].hasFn
            /\ \E k \in 1..Len(resumes) : resumes[k].filename = srResults[i].fn

Contains(s, sub) ==
    \E k \in 0..(Len(s) - Len(sub)) : SubSeq(s, k + 1, k + Len(sub)) = sub

\* C9: when the answer's text does not parse as JSON, score_resumes raises
\* ValueError whose message includes the answer's text (as stripped of
\* surrounding whitespace), returns no list, and has made exactly one
\* model call, whatever the batch.
C9_MalformedIsFatal ==
    (srStatus # "idle" /\ response.kind = "text" /\ ~JsonLoads(response.text).ok) =>
        /\ srStatus = "raised"
        /\ srError.type = "ValueError"
        /\ Contains(srError.msg, StripText(response.text))
        /\ Len(srError.msg) > Len(StripText(response.text))
        /\ srResults = <<>>
        /\ modelCalls = 1

\* A fenced answer with two objects, on a batch of two: raised, with the
\* text in the message.
C9_Witness ==
    /\ srStatus = "raised"
    /\ srError.type = "ValueError"
    /\ Len(resumes) = 2
    /\ response.kind = "text"
    /\ Len(response.text) >= 7
    /\ response.text[1].t = "txt"
    /\ Len(srError.msg) >= 6


\* ------------------------------------------------------------------------
\* Pagination
\* ------------------------------------------------------------------------
PageInit == PageStart /\ ScoreIdle /\ ExtractIdle /\ ClientIdle /\ MainIdle /\ StageIdle

PageNext == GetJobContactsPage \/ GetJobDocumentsPage

SpecPage == PageInit /\ [][PageNext]_vars

\* The length of the k-th page of a listing of pgN items.
PageLen(k) ==
    LET before == (k - 1) * PAGE_SIZE
    IN IF pgN <= before THEN 0
       ELSE IF pgN - before < PAGE_SIZE THEN pgN - before ELSE PAGE_SIZE

\* The total the running function reads from the Metadata, if the server
\* sends it: TotalCount (contacts), TotalRecords or TotalCount (documents).
TotalReported ==
    IF pgFn = "contacts" THEN pgMeta.TotalCount.some
    ELSE pgMeta.TotalRecords.some \/ pgMeta.TotalCount.some

\* After k pages: the k-th was short, or the reported total is reached.
StopAfter(k) ==
    \/ PageLen(k) < PAGE_SIZE
    \/ TotalReported /\ (k - 1) * PAGE_SIZE + PageLen(k) >= pgN

ExtractInit == ExtractStart /\ ScoreIdle /\ PageIdle /\ ClientIdle /\ MainIdle /\ StageIdle

ExtractNext == ExtractResumesText

SpecExtract == ExtractInit /\ [][ExtractNext]_vars

SupportedExts == {ExtPdf, ExtDocx, ExtDoc, ExtTxt}

\* The name is a non-empty stem followed by ext, in any letter case, and
\* ext is the name's last dot-part.
HasExtension(name, ext) ==
    /\ Len(name) > Len(ext)
    /\ Lower(SubSeq(name, Len(name) - Len(ext) + 1, Len(name))) = ext

IsSupportedFile(p) ==
    /\ exFiles[p].isFile
    /\ \E ext \in SupportedExts : HasExtension(p.name, ext)

IsPdf(p) == exFiles[p].isFile /\ HasExtension(p.name, ExtPdf)

\* C5 as claimed: a PDF the reader fails to open still has an entry, whose
\* value is an error-describing string, and its supported siblings are
\* extracted to their text.
C5_CorruptPdfErrorString ==
    exStatus = "returned" =>
        \A p \in DOMAIN exFiles :
            (IsPdf(p) /\ exFiles[p].cond = "open_fails") =>
                /\ p \in DOMAIN exTexts
                /\ exTexts[p].k = "error"
                /\ \A q \in DOMAIN exFiles :
                      (q # p /\ IsSupportedFile(q) /\ exFiles[q].cond = "ok")
                          => (q \in DOMAIN exTexts /\ exTexts[q] = TextOf(q))

\* C5 as amended: a PDF the reader fails to open still has an entry, whose
\* value is the empty string, and its supported siblings are extracted to
\* their text.
C5_CorruptPdfEmptyEntry ==
    exStatus = "returned" =>
        \A p \in DOMAIN exFiles :
            (IsPdf(p) /\ exFiles[p].cond = "open_fails") =>
                /\ p \in DOMAIN exTexts
                /\ exTexts[p] = Empty
                /\ \A q \in DOMAIN exFiles :
                      (q # p /\ IsSupportedFile(q) /\ exFiles[q].cond = "ok")
                          => (q \in DOMAIN exTexts /\ exTexts[q] = TextOf(q))

\* A scanned folder with a PDF that failed to open beside a readable .txt
\* and a readable .docx.
C5_Witness ==
    /\ exStatus = "returned"
    /\ \E p, q, r \in DOMAIN exFiles :
          /\ IsPdf(p) /\ exFiles[p].cond = "open_fails" /\ p \in DOMAIN exTexts
          /\ HasExtension(q.name, ExtTxt) /\ exTexts[q] = TextOf(q)
          /\ HasExtension(r.name, ExtDocx) /\ exTexts[r] = TextOf(r)

\* C7: the returned mapping's keys are exactly the regular files whose
\* extension is .pdf, .docx, .doc or .txt in any letter case; a folder of
\* one .txt, one .pdf and one .xyz gives exactly two entries.
C7_KeysAreSupportedFiles ==
    exStatus = "returned" =>
        /\ DOMAIN exTexts = { p \in DOMAIN exFiles : IsSupportedFile(p) }
        /\ (DOMAIN exFiles = { Path("", <<"a", ".", "t", "x", "t">>),
                               Path("", <<"b", ".", "p", "d", "f">>),
                               Path("", <<"c", ".", "x", "y", "z">>) }
              /\ \A p \in DOMAIN exFiles : exFiles[p].isFile)
            => Cardinality(DOMAIN exTexts) = 2

\* A scanned folder of a.txt, D.PDF and c.xyz: two entries, D.PDF among them.
C7_Witness ==
    /\ exStatus = "returned"
    /\ DOMAIN exFiles = { Path("", <<"a", ".", "t", "x", "t">>),
                          Path("", <<"D", ".", "P", "D", "F">>),
                          Path("", <<"c", ".", "x", "y", "z">>) }
    /\ DOMAIN exTexts = { Path("", <<"a", ".", "t", "x", "t">>),
                          Path("", <<"D", ".", "P", "D", "F">>) }


\* ------------------------------------------------------------------------
\* The ATS client's main
\* ------------------------------------------------------------------------
ClientInit == ClientStart /\ ScoreIdle /\ PageIdle /\ ExtractIdle /\ MainIdle /\ StageIdle

ClientNext == MainBegin \/ MainContact

SpecClient == ClientInit /\ [][ClientNext]_vars

\* The i-th contact's stage lookup failed (not found, no stage, HTTP error)
\* or its download failed.
ContactFailed(i) ==
    \/ clLog[i].stage \in {"none", "http_error"}
    \/ clLog[i].download = "raised"

\* C4: a contact's failed stage lookup or failed download does not abort
\* the batch: once main has ended, every contact after a failed one has
\* been stage-checked too.
C4_FailureIsolated ==
    clStatus \in {"done", "raised"} =>
        \A i \in 1..Len(clLog) :
            ContactFailed(i) => \A j \in (i + 1)..Len(clContacts) : j <= Len(clLog)

\* The contact the for loop took in this step.
TakenContact == clContacts[clIndex + 1]

\* download_contact_attachment was called in this step.
DownloadCalled == clIndex' = clIndex + 1 /\ clLog'[clIndex'].download # "not_called"

\* C8: a call of download_contact_attachment on a contact without a primary
\* attachment (or without its Id) issues no request, creates no directory
\* or file and does not raise; a call answered not-found creates no
\* directory or file and does not raise; directories and files appear only
\* in a call whose contact has an attachment Id and whose fetch succeeded.
C8_DownloadFrame ==
    [][ DownloadCalled =>
          /\ (~TakenContact.pa.present \/ ~TakenContact.pa.hasId) =>
                (clArtReqs' = clArtReqs /\ fsDirs' = fsDirs /\ fsFiles' = fsFiles
                    /\ clStatus' # "raised")
          /\ clLog'[clIndex'].download = "not_found" =>
                (clArtReqs' = clArtReqs + 1 /\ fsDirs' = fsDirs /\ fsFiles' = fsFiles
                    /\ clStatus' # "raised")
          /\ (fsDirs' # fsDirs \/ fsFiles' # fsFiles) =>
                (TakenContact.pa.present /\ TakenContact.pa.hasId
                    /\ clLog'[clIndex'].download = "saved")
      ]_vars

\* After a saved download for the first contact, the call for the second
\* contact, which has no attachment, has returned: nothing was added.
C8_Witness ==
    /\ clIndex = 2
    /\ clStatus \in {"running", "done"}
    /\ clLog[1].download = "saved"
    /\ clLog[2].download = "no_resume"
    /\ ~clContacts[2].pa.present
    /\ clArtReqs = 1
    /\ fsDirs = {OutputDir, "c1"}
    /\ Cardinality(fsFiles) = 1


\* ------------------------------------------------------------------------
\* The entry point
\* ------------------------------------------------------------------------
MainInit == MainStart /\ ScoreIdle /\ PageIdle /\ ExtractIdle /\ ClientIdle /\ StageIdle

MainNext ==
    \/ Import
    \/ ClearResumeFolder
    \/ ClearDocumentFolder
    \/ EnsureFolders
    \/ ProcessJobRequest
    \/ ProcessJobEnds
    \/ ScoreAndPrint
    \/ Finish

SpecMain == MainInit /\ [][MainNext]_vars

\* The items an earlier run left in the folder.
Leftovers(folder) == folder.items \cap OldItems

ScoringNeedsDownload == mnScoring => mnDownloadOk

FailedRunsExitNonZero ==
    (mnPc = "exited" /\ mnFailed \in {"setup", "download", "scoring"}) =>
        (mnExit.some /\ mnExit.v # 0 /\ ~mnPrinted)

StageInit == StageStart /\ ScoreIdle /\ PageIdle /\ ExtractIdle /\ ClientIdle /\ MainIdle

StageNext == GetLatestStageCall

SpecStage == StageInit /\ [][StageNext]_vars

\* The entry is a timestamped stage record: it carries a Date that reads
\* as a timestamp, and its Stage is not null.
IsStageRecord(e) == e.hasDate /\ AllDigits(RStripZ(e.Date)) /\ e.Stage # "null"

\* The timestamp of a stage record.
Timestamp(e) == DigitsValue(RStripZ(e.Date))

\* No entry of the history has a greater timestamp than the i-th.
HasGreatestTimestamp(history, i) ==
    \A j \in 1..Len(history) : Timestamp(history[j]) <= Timestamp(history[i])

DistinctTimestamps(history) ==
    \A i, j \in 1..Len(history) : i # j => Timestamp(history[i]) # Timestamp(history[j])

\* The same entries listed in every order.
Reorderings(history) ==
    { [i \in 1..Len(history) |-> history[p[i]]] : p \in Permutations(1..Len(history)) }

SameTitle(a, b) == a.some = b.some /\ (a.some => a.v = b.v)

\* The lookup has ended on a non-empty history of timestamped stage records.
StageHistoryLookedUp ==
    /\ stStatus \in {"returned", "raised"}
    /\ stResp.status = 200
    /\ stResp.Data # <<>>
    /\ \A i \in 1..Len(stResp.Data) : IsStageRecord(stResp.Data[i])

\* C11: on a non-empty history of timestamped stage records, listed in any
\* order, get_latest_stage returns the stage title of an entry with the
\* greatest timestamp (None when that entry has no title), and when the
\* timestamps are distinct the same value for every order of the entries;
\* when the endpoint answers not-found, or with an empty history, it
\* returns None and does not raise.
C11_LatestStage ==
    /\ StageHistoryLookedUp =>
          /\ stStatus = "returned"
          /\ \E i \in 1..Len(stResp.Data) :
                /\ HasGreatestTimestamp(stResp.Data, i)
                /\ SameTitle(stValue, IF stResp.Data[i].Stage = "object"
                                      THEN stResp.Data[i].Title ELSE None)
          /\ DistinctTimestamps(stResp.Data) =>
                \A h \in Reorderings(stResp.Data) :
                    LET other == GetLatestStage([status |-> 200, Data |-> h])
                    IN ~other.raised /\ SameTitle(other.value, stValue)
    /\ (/\ stStatus \in {"returned", "raised"}
        /\ (stResp.status = 404 \/ (stResp.status = 200 /\ stResp.Data = <<>>))) =>
          (stStatus = "returned" /\ ~stValue.some)

\* The endpoint listed three entries with the latest (day 10) in the middle
\* and the earliest last; the lookup returned the title of the middle one.
C11_Witness ==
    /\ stStatus = "returned"
    /\ stResp.status = 200
    /\ stResp.Data = << HistoryEntry(Date2, Some(Submitted)),
                        HistoryEntry(Date10, Some(GoodFitPadded)),
                        HistoryEntry(Date1, Some(GoodFit)) >>
    /\ stValue.some
    /\ stValue.v = GoodFitPadded

=============================================================================
